---- MODULE Spec2Model ----
(***************************************************************************)
(* Model of app.py: the posting flow of record_post_to_blockchain and the *)
(* part of main that calls it and reports its outcome.                    *)
(*                                                                         *)
(* Strings that the code indexes or converts are sequences of one-         *)
(* character strings: the post text, the sequence_number field and the     *)
(* decimal renderings produced by str().                                   *)
(***************************************************************************)
EXTENDS Integers, Sequences, FiniteSets, TLC

\* ------------------------------------------------------------------ bounds
MaxClock == 1     \* the clock advances at most this many seconds
MaxRuns == 2      \* button clicks of main
MaxTextLen == 2   \* characters of a generated post
MaxFieldLen == 1  \* characters of the account's sequence_number field

\* --------------------------------------------------------- program constants
ExpirationWindow == 600
MaxGasAmount == 5000
GasUnitPrice == 100
StatusOk == 200
StatusAccepted == 202

None == "None"      \* Python's None
Unset == "Unset"    \* a local that has not been assigned

\* ------------------------------------------------------------ pure helpers
RECURSIVE SeqsUpTo(_, _)
SeqsUpTo(S, n) ==
  IF n = 0 THEN {<<>>}
  ELSE LET shorter == SeqsUpTo(S, n - 1)
       IN shorter \cup {Append(s, c) : s \in {t \in shorter : Len(t) = n - 1}, c \in S}

\* ord(c) on the characters the model draws post texts from
TextAlphabet == {"g", "m", "E"}   \* "E" stands for the euro sign U+20AC
ord(c) ==
  CASE c = "g" -> 103
    [] c = "m" -> 109
    [] c = "E" -> 8364

Digits == <<"0", "1", "2", "3", "4", "5", "6", "7", "8", "9">>
IsDigit(c) == \E i \in 1..10 : Digits[i] = c
DigitVal(c) == (CHOOSE i \in 1..10 : Digits[i] = c) - 1

RECURSIVE DigitsValue(_)
DigitsValue(s) ==
  IF Len(s) = 0 THEN 0
  ELSE 10 * DigitsValue(SubSeq(s, 1, Len(s) - 1)) + DigitVal(s[Len(s)])

AllDigits(s) == Len(s) > 0 /\ \A i \in 1..Len(s) : IsDigit(s[i])

\* int(s) on strings over digits, "-" and other characters: does it parse?
IntParses(s) ==
  IF Len(s) > 0 /\ s[1] = "-" THEN AllDigits(Tail(s)) ELSE AllDigits(s)

\* int(s) for a string that parses
ParseInt(s) ==
  IF s[1] = "-" THEN 0 - DigitsValue(Tail(s)) ELSE DigitsValue(s)

RECURSIVE NatStr(_)
NatStr(n) ==
  IF n < 10 THEN <<Digits[n + 1]>>
  ELSE Append(NatStr(n \div 10), Digits[(n % 10) + 1])

\* a plausible slip: zero treated as "no value"
StrOfZeroEmpty(n) == IF n = 0 THEN <<>> ELSE IF n < 0 THEN <<"-">> \o NatStr(0 - n) ELSE NatStr(n)

\* str(n)
StrOf(n) == IF n < 0 THEN <<"-">> \o NatStr(0 - n) ELSE NatStr(n)

\* truthiness of a returned hash in `if tx_hash:`
Truthy(v) == v # None /\ v # ""

\* ------------------------------------------------------------------ inputs
Texts == SeqsUpTo(TextAlphabet, MaxTextLen)

FieldAlphabet == {"0", "5", "-", "x"}
FieldStrings == SeqsUpTo(FieldAlphabet, MaxFieldLen)

NodeUrls == {"", "https://node/v1"}
Addresses == {"", "0xABC"}
PrivateKeys == {"", "0xKEY", "nothex"}

Configs == [url : NodeUrls, addr : Addresses, key : PrivateKeys]

\* what requests.get / requests.post can give back for the account read
NoAccountResponse ==
  [raised |-> FALSE, status |-> 0, json |-> FALSE, has_seq |-> FALSE, seq |-> <<>>]
AccountResponses ==
  {[NoAccountResponse EXCEPT !.raised = TRUE]}
  \cup {[NoAccountResponse EXCEPT !.status = s, !.json = j] :
          s \in {StatusOk, 404}, j \in BOOLEAN}
  \cup {[NoAccountResponse EXCEPT !.status = StatusOk, !.json = TRUE,
                                  !.has_seq = TRUE, !.seq = f] : f \in FieldStrings}

\* response texts of the encode endpoint, as sequences of words
ErrorTexts ==
  { <<"Module", "not", "found">>, <<"cannot", "resolve", "module">>, <<"bad", "request">> }

\* body of a 200 encode response: a JSON hex string, a JSON string that is
\* not hex, a JSON value that is not a string, or no JSON at all
EncodeBodies == {"hex", "nothex", "object", "notjson"}

NoEncodeResponse == [raised |-> FALSE, status |-> 0, text |-> <<>>, body |-> "notjson"]
EncodeResponses ==
  {[NoEncodeResponse EXCEPT !.raised = TRUE]}
  \cup {[NoEncodeResponse EXCEPT !.status = 404, !.text = t, !.body = "object"] :
          t \in ErrorTexts}
  \cup {[NoEncodeResponse EXCEPT !.status = 201, !.body = "hex"]}
  \cup {[NoEncodeResponse EXCEPT !.status = StatusOk, !.body = b] : b \in EncodeBodies}

Hashes == {"0xh1", ""}
NoSubmitResponse ==
  [raised |-> FALSE, status |-> 0, json |-> FALSE, has_hash |-> FALSE, hash |-> ""]
SubmitResponses ==
  {[NoSubmitResponse EXCEPT !.raised = TRUE]}
  \cup {[NoSubmitResponse EXCEPT !.status = s] : s \in {StatusAccepted, StatusOk, 400}}
  \cup {[NoSubmitResponse EXCEPT !.status = s, !.json = TRUE] :
          s \in {StatusAccepted, StatusOk, 400}}
  \cup {[NoSubmitResponse EXCEPT !.status = s, !.json = TRUE, !.has_hash = TRUE, !.hash = h] :
          s \in {StatusAccepted, StatusOk}, h \in Hashes}

\* exception classes the body of record_post_to_blockchain can raise
PyExceptions == {"RequestException", "ValueError", "TypeError"}

\* ------------------------------------------------- conditions of the code
\* `not APTOS_PRIVATE_KEY or not MODULE_ADDRESS`
ConfigMissing(c) == c.key = "" \/ c.addr = ""

AccountOkLenient(r) == r.status < 500
\* `account_response.status_code != 200` is false
AccountOk(r) == r.status = StatusOk

EncodeOkLenient(r) == r.status < 400
\* `tx_response.status_code != 200` is false
EncodeOk(r) == r.status = StatusOk

SubmitOkLenient(r) == r.status \in {StatusOk, StatusAccepted}
\* `submit_response.status_code == 202`
SubmitOk(r) == r.status = StatusAccepted

\* str.lower() on the words of an error text
Lower(w) == IF w = "Module" THEN "module" ELSE w
LowerText(t) == [i \in 1..Len(t) |-> Lower(t[i])]

\* `phrase in text`
Contains(t, phrase) ==
  \E i \in 0..(Len(t) - Len(phrase)) : SubSeq(t, i + 1, i + Len(phrase)) = phrase

\* the module-not-found patterns of the encode failure
ModuleNotFound(t) ==
  \/ Contains(LowerText(t), <<"cannot", "resolve", "module">>)
  \/ Contains(LowerText(t), <<"module", "not", "found">>)

\* account_data.get("sequence_number", "0")
SequenceField(r) == IF r.has_seq THEN r.seq ELSE <<"0">>

\* bytes.fromhex(APTOS_PRIVATE_KEY.replace("0x", "")) and SigningKey(...) succeed
ValidKey(k) == k = "0xKEY"

PostBytesShort(text) == [i \in 1..(Len(text) - 1) |-> ord(text[i])]
\* [ord(c) for c in post_text]
PostBytes(text) == [i \in 1..Len(text) |-> ord(text[i])]

ExpirationFromStart(now) == 0 + ExpirationWindow
\* int(time.time()) + 600
Expiration(now) == now + ExpirationWindow

\* the entry-function payload
EntryFunction(addr, text) ==
  [type |-> "entry_function_payload",
   function |-> <<addr, "shitpost_logger", "log_post">>,
   type_arguments |-> <<>>,
   arguments |-> <<PostBytes(text)>>]

\* the body of the encode_submission request
BuildPayload(addr, seqno, expiry, text) ==
  [sender |-> addr,
   sequence_number |-> StrOf(seqno),
   max_gas_amount |-> StrOf(MaxGasAmount),
   gas_unit_price |-> StrOf(GasUnitPrice),
   expiration_timestamp_secs |-> StrOf(expiry),
   payload |-> EntryFunction(addr, text)]

NoPayload ==
  [sender |-> "", sequence_number |-> <<>>, max_gas_amount |-> <<>>,
   gas_unit_price |-> <<>>, expiration_timestamp_secs |-> <<>>,
   payload |-> [type |-> "", function |-> <<>>, type_arguments |-> <<>>, arguments |-> <<>>]]

NoSignature == [type |-> "", public_key |-> <<>>, signature |-> <<>>]

\* the body of the transactions request
BuildSignedTx(addr, seqno, expiry, pl, key, encoded) ==
  [sender |-> addr,
   sequence_number |-> StrOf(seqno),
   max_gas_amount |-> StrOf(MaxGasAmount),
   gas_unit_price |-> StrOf(GasUnitPrice),
   expiration_timestamp_secs |-> StrOf(expiry),
   payload |-> pl.payload,
   signature |-> [type |-> "ed25519_signature",
                  public_key |-> <<"verify_key", key>>,
                  signature |-> <<key, encoded>>]]

NoSignedTx ==
  [sender |-> "", sequence_number |-> <<>>, max_gas_amount |-> <<>>,
   gas_unit_price |-> <<>>, expiration_timestamp_secs |-> <<>>,
   payload |-> NoPayload.payload, signature |-> NoSignature]

HandlesRequestsOnly(exc) == exc = "RequestException"
\* `except Exception as e` around the whole body
Handles(exc) == exc \in PyExceptions

StageOrder == <<"account_get", "encode_post", "sign", "submit_post">>

NextStageRetry(stage, proceed) ==
  IF ~proceed THEN stage
  ELSE CASE stage = "config" -> "account"
         [] stage = "account" -> "encode"
         [] stage = "encode" -> "sign"
         [] stage = "sign" -> "submit"
         [] stage = "submit" -> "returned"
\* where control goes after a stage: on to the next one when the stage ran
\* to its end, out of the function when it returned or raised
NextStage(stage, proceed) ==
  IF ~proceed THEN "returned"
  ELSE CASE stage = "config" -> "account"
         [] stage = "account" -> "encode"
         [] stage = "encode" -> "sign"
         [] stage = "sign" -> "submit"
         [] stage = "submit" -> "returned"

\* -------------------------------------------------------------------- state
VARIABLES
  cfg,               \* APTOS_NODE_URL, MODULE_ADDRESS, APTOS_PRIVATE_KEY
  nacl,              \* whether `from nacl.signing import SigningKey` succeeds
  clock,             \* int(time.time()), relative to the start
  runs,              \* button clicks so far
  pc,                \* position in main / record_post_to_blockchain
  post_text,
  calls,             \* external steps performed by the current invocation
  account_response,
  sequence_number,
  current_time,
  payload,
  tx_response,
  signed_tx,
  submit_response,
  result,            \* value returned by record_post_to_blockchain
  escaped,           \* exception that left record_post_to_blockchain, "" if none
  msgs,              \* diagnostics shown by the current invocation
  report             \* what main showed after the call

vars == <<cfg, nacl, clock, runs, pc, post_text, calls, account_response,
          sequence_number, current_time, payload, tx_response, signed_tx,
          submit_response, result, escaped, msgs, report>>

env == <<cfg, nacl, clock, runs>>
locals == <<account_response, sequence_number, current_time, payload,
            tx_response, signed_tx, submit_response>>

FreshLocals ==
  /\ calls' = <<>>
  /\ account_response' = NoAccountResponse
  /\ sequence_number' = 0
  /\ current_time' = 0
  /\ payload' = NoPayload
  /\ tx_response' = NoEncodeResponse
  /\ signed_tx' = NoSignedTx
  /\ submit_response' = NoSubmitResponse
  /\ result' = Unset
  /\ escaped' = ""
  /\ msgs' = {}

Init ==
  /\ cfg \in Configs
  /\ nacl \in BOOLEAN
  /\ clock = 0
  /\ runs = 0
  /\ pc = "idle"
  /\ post_text = <<>>
  /\ calls = <<>>
  /\ account_response = NoAccountResponse
  /\ sequence_number = 0
  /\ current_time = 0
  /\ payload = NoPayload
  /\ tx_response = NoEncodeResponse
  /\ signed_tx = NoSignedTx
  /\ submit_response = NoSubmitResponse
  /\ result = Unset
  /\ escaped = ""
  /\ msgs = {}
  /\ report = "none"

\* `return value` after showing the diagnostics `emitted`
Returns(value, emitted) ==
  /\ result' = value
  /\ msgs' = msgs \cup emitted
  /\ escaped' = ""
  /\ pc' = NextStage(pc, FALSE)

\* an exception raised inside the try block
Raises(exc) ==
  IF Handles(exc)
  THEN Returns(None, {"tx_error"})
  ELSE /\ escaped' = exc
       /\ pc' = NextStage(pc, FALSE)
       /\ UNCHANGED <<result, msgs>>

\* the stage ran to its end showing `emitted`
Proceeds(emitted) ==
  /\ pc' = NextStage(pc, TRUE)
  /\ msgs' = msgs \cup emitted
  /\ UNCHANGED <<result, escaped>>

\* the seconds pass
Tick ==
  /\ clock < MaxClock
  /\ clock' = clock + 1
  /\ UNCHANGED <<cfg, nacl, runs, pc, post_text, calls, locals, result, escaped, msgs, report>>

\* main: the "Generate Post" button
GeneratePost(topic, record_option, text) ==
  /\ pc \in {"idle", "reported"}
  /\ runs < MaxRuns
  /\ runs' = runs + 1
  /\ FreshLocals
  /\ IF topic = ""
     THEN /\ report' = "enter_topic"
          /\ pc' = "reported"
          /\ post_text' = <<>>
     ELSE IF ~record_option
     THEN /\ report' = "not_recorded"
          /\ pc' = "reported"
          /\ post_text' = text
     ELSE /\ report' = "pending"
          /\ pc' = "config"
          /\ post_text' = text
  /\ UNCHANGED <<cfg, nacl, clock>>

\* record_post_to_blockchain: the presence check of the configuration
CheckConfig ==
  /\ pc = "config"
  /\ IF ConfigMissing(cfg)
     THEN Returns(None, {"config_warning"})
     ELSE Proceeds({})
  /\ UNCHANGED <<env, post_text, calls, locals, report>>

\* step 1 and 2: read the account, parse the sequence number, build the payload
AccountGet(resp) ==
  /\ pc = "account"
  /\ cfg.url = "" => resp.raised      \* requests rejects a URL without a scheme
  /\ calls' = Append(calls, "account_get")
  /\ account_response' = resp
  /\ IF resp.raised
     THEN Raises("RequestException") /\ UNCHANGED <<sequence_number, current_time, payload>>
     ELSE IF ~AccountOk(resp)
     THEN Returns(None, {"account_error"}) /\ UNCHANGED <<sequence_number, current_time, payload>>
     ELSE IF ~resp.json \/ ~IntParses(SequenceField(resp))
     THEN Raises("ValueError") /\ UNCHANGED <<sequence_number, current_time, payload>>
     ELSE /\ sequence_number' = ParseInt(SequenceField(resp))
          /\ current_time' = Expiration(clock)
          /\ payload' = BuildPayload(cfg.addr, sequence_number', current_time', post_text)
          /\ Proceeds({"account_info"})
  /\ UNCHANGED <<env, post_text, tx_response, signed_tx, submit_response, report>>

\* step 3: ask the node for the bytes to sign
EncodeSubmission(resp) ==
  /\ pc = "encode"
  /\ calls' = Append(calls, "encode_post")
  /\ tx_response' = resp
  /\ IF resp.raised
     THEN Raises("RequestException")
     ELSE IF ~EncodeOk(resp)
     THEN Returns(None, {"encode_error"} \cup
                        (IF ModuleNotFound(resp.text) THEN {"module_warning"} ELSE {}))
     ELSE IF resp.body = "notjson"
     THEN Raises("ValueError")
     ELSE Proceeds({})
  /\ UNCHANGED <<env, post_text, account_response, sequence_number, current_time,
                 payload, signed_tx, submit_response, report>>

\* step 4: sign the encoded bytes and assemble the signed transaction
Sign ==
  /\ pc = "sign"
  /\ IF ~nacl
     THEN Returns(None, {"nacl_error"}) /\ UNCHANGED <<calls, signed_tx>>
     ELSE IF ~ValidKey(cfg.key)
     THEN Raises("ValueError") /\ UNCHANGED <<calls, signed_tx>>
     ELSE IF tx_response.body = "object"
     THEN Raises("TypeError") /\ UNCHANGED <<calls, signed_tx>>
     ELSE IF tx_response.body # "hex"
     THEN Raises("ValueError") /\ UNCHANGED <<calls, signed_tx>>
     ELSE /\ calls' = Append(calls, "sign")
          /\ signed_tx' = BuildSignedTx(cfg.addr, sequence_number, current_time,
                                        payload, cfg.key, tx_response.body)
          /\ Proceeds({})
  /\ UNCHANGED <<env, post_text, account_response, sequence_number, current_time,
                 payload, tx_response, submit_response, report>>

\* step 5: submit the signed transaction
SubmitTransaction(resp) ==
  /\ pc = "submit"
  /\ calls' = Append(calls, "submit_post")
  /\ submit_response' = resp
  /\ IF resp.raised
     THEN Raises("RequestException")
     ELSE IF SubmitOk(resp)
     THEN IF ~resp.json
          THEN Raises("ValueError")
          ELSE Returns(IF resp.has_hash THEN resp.hash ELSE None, {"tx_success"})
     ELSE Returns(None, {"submit_error"})
  /\ UNCHANGED <<env, post_text, account_response, sequence_number, current_time,
                 payload, tx_response, signed_tx, report>>

\* main: what is shown once record_post_to_blockchain is back
MainReport ==
  /\ pc = "returned"
  /\ pc' = "reported"
  /\ report' = IF escaped # "" THEN "crashed"
               ELSE IF Truthy(result) THEN "success" ELSE "failed"
  /\ UNCHANGED <<env, post_text, calls, locals, result, escaped, msgs>>

Next ==
  \/ Tick
  \/ \E topic \in {"", "#AI"}, record_option \in BOOLEAN :
       \E text \in (IF topic = "" THEN {<<>>} ELSE Texts) :   \* no topic, no post
          GeneratePost(topic, record_option, text)
  \/ CheckConfig
  \/ \E resp \in AccountResponses : AccountGet(resp)
  \/ \E resp \in EncodeResponses : EncodeSubmission(resp)
  \/ Sign
  \/ \E resp \in SubmitResponses : SubmitTransaction(resp)
  \/ MainReport

Spec == Init /\ [][Next]_vars

\* ------------------------------------------------------------- properties
IsPrefix(s, t) == Len(s) <= Len(t) /\ s = SubSeq(t, 1, Len(s))

AccountAnswered == Len(calls) >= 1 /\ ~account_response.raised
EncodeAnswered == Len(calls) >= 2 /\ ~tx_response.raised
SubmitAnswered == Len(calls) >= 4 /\ ~submit_response.raised
Finished == result # Unset \/ escaped # ""

\* C1: the external steps of an invocation happen only in the order account
\* GET, encode_submission POST, signing, transactions POST, each at most
\* once, and once the invocation has returned no further step is performed.
C1_LinearFlow ==
  /\ [](IsPrefix(calls, StageOrder))
  /\ [][Finished => (calls' = calls \/ calls' = <<>>)]_vars

C1_Witness == pc = "returned" /\ calls = StageOrder /\ result = "0xh1"

\* C2: a non-200 account read stops the invocation: no payload is built, no
\* encode POST, signing or transactions POST follows, and the result is None.
C2_AccountFailureStops ==
  (AccountAnswered /\ account_response.status # StatusOk) =>
     /\ calls = <<"account_get">>
     /\ payload = NoPayload
     /\ signed_tx = NoSignedTx
     /\ result = None

C2_Witness ==
  /\ pc = "returned"
  /\ AccountAnswered
  /\ account_response.status = 404
  /\ account_response.json
  /\ "account_error" \in msgs

\* C3: a non-200 encode response (a 404 saying "module not found" included)
\* stops the invocation: nothing is signed, no transactions POST is issued,
\* and the result is None.
C3_EncodeFailureStops ==
  (EncodeAnswered /\ tx_response.status # StatusOk) =>
     /\ calls = <<"account_get", "encode_post">>
     /\ signed_tx = NoSignedTx
     /\ result = None

C3_Witness ==
  /\ pc = "returned"
  /\ EncodeAnswered
  /\ tx_response.status = 404
  /\ tx_response.text = <<"Module", "not", "found">>
  /\ "module_warning" \in msgs

\* C4: a hash is returned only when the transactions POST answered 202, and
\* it is the hash field of that answer; for any other submit status the
\* result is None and main reports failure, never success.
C4_HashOnlyOnAccepted ==
  /\ (result \notin {Unset, None}) =>
        /\ SubmitAnswered
        /\ submit_response.status = StatusAccepted
        /\ submit_response.has_hash
        /\ result = submit_response.hash
  /\ (SubmitAnswered /\ submit_response.status # StatusAccepted) =>
        /\ result = None
        /\ report # "success"
        /\ (pc = "reported" => report = "failed")
  /\ (report = "success") =>
        /\ submit_response.status = StatusAccepted
        /\ result = submit_response.hash

C4_Witness ==
  /\ report = "success"
  /\ submit_response.status = StatusAccepted
  /\ result = "0xh1"

\* C5: whenever the flow ends in failure (no hash returned and main reports
\* failure) the node has not answered 202 to a transaction of that flow.
C5_FailedNeverAccepted ==
  (report = "failed" /\ ~Truthy(result)) =>
     ~(SubmitAnswered /\ submit_response.status = StatusAccepted)

\* C6: if any one of the node URL, the module address and the private key is
\* empty, the invocation ends with the configuration warning before any
\* request is made, and returns None.
C6_EmptyConfigAborts ==
  (pc = "returned" /\ (cfg.url = "" \/ cfg.addr = "" \/ cfg.key = "")) =>
     /\ calls = <<>>
     /\ "config_warning" \in msgs
     /\ result = None

\* the flow ended with a 202 whose body could be read
Succeeded ==
  /\ calls = StageOrder
  /\ ~submit_response.raised
  /\ submit_response.status = StatusAccepted
  /\ submit_response.json

\* C7: whatever goes wrong at any stage, no exception leaves
\* record_post_to_blockchain and the value it returns is None.
C7_FailsClosed ==
  /\ escaped = ""
  /\ (pc = "returned") => (result # Unset /\ (~Succeeded => result = None))

C7_Witness ==
  /\ pc = "returned"
  /\ calls = <<"account_get", "encode_post">>
  /\ tx_response.body = "hex"
  /\ nacl
  /\ cfg.key = "nothex"
  /\ "tx_error" \in msgs
  /\ result = None

\* C8: once the signed transaction exists, its sequence_number is the one
\* sent to the encode endpoint, and both have the integer value of the
\* sequence_number field of the account response of the same invocation
\* ("0" included; 0 when the response has no such field).
C8_SequenceNumberCarried ==
  (signed_tx # NoSignedTx) =>
     /\ signed_tx.sequence_number = payload.sequence_number
     /\ IntParses(signed_tx.sequence_number)
     /\ ParseInt(signed_tx.sequence_number) = sequence_number
     /\ account_response.has_seq =>
          /\ IntParses(account_response.seq)
          /\ sequence_number = ParseInt(account_response.seq)
     /\ ~account_response.has_seq => sequence_number = 0

C8_Witness ==
  /\ Len(calls) = 4
  /\ account_response.has_seq
  /\ account_response.seq = <<"0">>
  /\ signed_tx.sequence_number = <<"0">>

\* C9: the expiration is the clock reading at the moment the invocation
\* builds the transaction plus 600, every invocation computes it from the
\* clock of that moment, and the encode request and the signed transaction
\* carry the same value.
C9_ExpirationFromBuildTime ==
  /\ [][(pc = "account" /\ pc' = "encode") =>
          /\ current_time' = clock + ExpirationWindow
          /\ payload'.expiration_timestamp_secs = StrOf(clock + ExpirationWindow)]_vars
  /\ []((payload # NoPayload) =>
          payload.expiration_timestamp_secs = StrOf(current_time))
  /\ []((signed_tx # NoSignedTx) =>
          signed_tx.expiration_timestamp_secs = payload.expiration_timestamp_secs)

C9_Witness ==
  /\ runs = MaxRuns
  /\ signed_tx # NoSignedTx
  /\ current_time = MaxClock + ExpirationWindow
  /\ signed_tx.expiration_timestamp_secs = StrOf(MaxClock + ExpirationWindow)

\* every character of the text fits one byte
SingleByte(text) == \A i \in 1..Len(text) : ord(text[i]) < 256

\* C10: for a text of single-byte characters the payload's arguments is a
\* one-element array whose element has the length of the text and holds the
\* code point of each character in order, and the signed transaction carries
\* that payload unchanged.
C10_ArgumentsAreCodePoints ==
  /\ (payload # NoPayload /\ SingleByte(post_text)) =>
        /\ Len(payload.payload.arguments) = 1
        /\ Len(payload.payload.arguments[1]) = Len(post_text)
        /\ \A i \in 1..Len(post_text) :
              payload.payload.arguments[1][i] = ord(post_text[i])
  /\ (signed_tx # NoSignedTx) => signed_tx.payload = payload.payload

C10_Witness ==
  /\ post_text = <<"g", "m">>
  /\ Len(calls) = 4
  /\ signed_tx.payload.arguments = << <<103, 109>> >>

====
